---- MODULE Spec2Model ----
(***************************************************************************)
(* Keras_ELMo_Tutorial.ipynb as a state machine.                           *)
(*                                                                         *)
(* The notebook is one top-to-bottom script: it loads the IMDB files,      *)
(* shuffles, tokenizes and truncates every document, asks the ELMo         *)
(* embedder for one embedding per document, pads the embeddings to         *)
(* max_tokens rows and trains a classifier for a fixed number of epochs.   *)
(*                                                                         *)
(* A text is a sequence of one-character strings, a token is a text, an    *)
(* embedding is a sequence of rows (one row per token); a row is either    *)
(* the embedder's vector for a token or a row of zeros added by padding.   *)
(***************************************************************************)
EXTENDS Integers, Sequences, FiniteSets

VARIABLES
    fs,             \* the extracted archive: fs[ds][cls] lists the files' contents in os.listdir order
    max_tokens,     \* the script's max_tokens
    max_sentences,  \* the max_sentences argument of both create_elmo_embeddings calls
    pc,             \* the statement of the script that runs next
    error,          \* the statement that raised, "none" while nothing has raised
    train_data, test_data,        \* lists of document records
    num_sentences, embeddings, labels, documentIdx,  \* locals of create_elmo_embeddings
    train_x, train_y, test_x, test_y,
    epoch,          \* epochs model.fit has completed
    elmo_calls      \* elmo_calls[ds][i]: how often the embedder produced document i's embedding

vars == <<fs, max_tokens, max_sentences, pc, error, train_data, test_data,
          num_sentences, embeddings, labels, documentIdx,
          train_x, train_y, test_x, test_y, epoch, elmo_calls>>

----------------------------------------------------------------------------
(* Bounds of the model and constants of the program *)

\* at most this many files in the whole archive
MaxFiles == 2
\* max_tokens ranges over 0..MaxTokensBound (the script uses 100)
MaxTokensBound == 3
\* max_sentences ranges over -1..MaxSentencesBound (the script uses 1000)
MaxSentencesBound == 2
\* model.fit(..., epochs=10, ...)
Epochs == 10
\* the ELMo embedding dimension
EmbDim == 1024

Datasets == {"train", "test"}

\* the file contents the archive draws from: "!" has no token, "a<br />b" has
\* two ("a", "b") once load_directory_data has replaced the line break
Pool == { <<"!">>,
          <<"a", "<", "b", "r", " ", "/", ">", "b">> }

RECURSIVE SeqsUpTo(_, _)
SeqsUpTo(S, n) ==
    IF n = 0 THEN {<<>>}
    ELSE LET shorter == SeqsUpTo(S, n - 1)
         IN  shorter \cup {Append(s, x) : s \in {t \in shorter : Len(t) = n - 1}, x \in S}

Min(a, b) == IF a < b THEN a ELSE b
Max(a, b) == IF a > b THEN a ELSE b

----------------------------------------------------------------------------
(* Python and library primitives *)

\* str.replace(old, new): left to right, non-overlapping
RECURSIVE str_replace(_, _, _)
str_replace(text, old, new) ==
    IF Len(text) < Len(old) THEN text
    ELSE IF SubSeq(text, 1, Len(old)) = old
         THEN new \o str_replace(SubSeq(text, Len(old) + 1, Len(text)), old, new)
         ELSE <<text[1]>> \o str_replace(Tail(text), old, new)

\* str.split(sep) for a one-character separator
RECURSIVE str_split(_, _)
str_split(text, sep) ==
    LET hits == {i \in 1..Len(text) : text[i] = sep}
    IN  IF hits = {} THEN <<text>>
        ELSE LET k == CHOOSE i \in hits : \A j \in hits : i <= j
             IN  <<SubSeq(text, 1, k - 1)>> \o str_split(SubSeq(text, k + 1, Len(text)), sep)

\* mutant of py_slice0: the slice keeps one element too many, seq[0:stop+1]
py_slice0_inclusive(seq, stop) ==
    SubSeq(seq, 1, Min(stop + 1, Len(seq)))

\* seq[0:stop]
py_slice0(seq, stop) ==
    LET s == IF stop < 0 THEN Max(Len(seq) + stop, 0) ELSE Min(stop, Len(seq))
    IN  SubSeq(seq, 1, s)

\* the default filters of keras.preprocessing.text.text_to_word_sequence
\* ("grave" stands for the grave accent character)
Filters == {"!", "\"", "#", "$", "%", "&", "(", ")", "*", "+", ",", "-", ".", "/",
            ":", ";", "<", "=", ">", "?", "@", "[", "\\", "]", "^", "_", "grave",
            "{", "|", "}", "~", "\t", "\n"}

\* text_to_word_sequence(text, lower=False): filter characters become the
\* split character, the text is split on it and empty pieces are dropped
text_to_word_sequence(text) ==
    LET translated == [i \in 1..Len(text) |-> IF text[i] \in Filters THEN " " ELSE text[i]]
    IN  SelectSeq(str_split(translated, " "), LAMBDA w : w # <<>>)

BR == <<"<", "b", "r", " ", "/", ">">>

----------------------------------------------------------------------------
(* The notebook's functions *)

\* load_directory_data(directory, label): one record per listed file
load_directory_data(listing, label) ==
    [i \in 1..Len(listing) |->
        [text |-> str_replace(listing[i], BR, <<" ">>), label |-> label]]

\* mutant of load_dataset: the two labels are exchanged
load_dataset_swapped(directory) ==
    load_directory_data(directory.pos, 0) \o load_directory_data(directory.neg, 1)

\* load_dataset(directory): the positive examples, then the negative ones
load_dataset(directory) ==
    load_directory_data(directory.pos, 1) \o load_directory_data(directory.neg, 0)

\* tokenize_text(documents, max_tokens): sets every document's 'tokens'
tokenize_text(documents, mt) ==
    [i \in 1..Len(documents) |->
        [text   |-> documents[i].text,
         label  |-> documents[i].label,
         tokens |-> py_slice0(text_to_word_sequence(documents[i].text), mt)]]

\* num_sentences of create_elmo_embeddings
NumSentences(ms, documents) ==
    IF ms > 0 THEN Min(ms, Len(documents)) ELSE Len(documents)

\* np.average(elmo_embedding, axis=0) of the embedding the embedder yields for
\* one sentence: one row per token
avg_elmo_embedding(tokens) == [i \in 1..Len(tokens) |-> <<"elmo", tokens[i]>>]

ZeroRow == <<"zeros">>

\* mutant of pad_x_matrix: the padding is one row short
pad_x_matrix_short(x_matrix, mt) ==
    [i \in 1..Len(x_matrix) |->
        LET sent == x_matrix[i]
            padding_length == mt - Len(sent) - 1
        IN  IF padding_length > 0
            THEN sent \o [j \in 1..padding_length |-> <<"zeros">>]
            ELSE sent]

\* the loop of pad_x_matrix: entries shorter than max_tokens get rows of zeros
pad_x_matrix(x_matrix, mt) ==
    [i \in 1..Len(x_matrix) |->
        LET sent == x_matrix[i]
            padding_length == mt - Len(sent)
        IN  IF padding_length > 0
            THEN sent \o [j \in 1..padding_length |-> ZeroRow]
            ELSE sent]

\* np.array(x_matrix, dtype=np.float32) raises on entries of different lengths
np_array_ok(x_matrix) ==
    \A i, j \in 1..Len(x_matrix) : Len(x_matrix[i]) = Len(x_matrix[j])

\* matrix.shape
np_shape(matrix) ==
    IF Len(matrix) = 0 THEN <<0>> ELSE <<Len(matrix), Len(matrix[1]), EmbDim>>

Permutations(s) ==
    {t \in [1..Len(s) -> {s[i] : i \in 1..Len(s)}] :
        \E f \in [1..Len(s) -> 1..Len(s)] :
            /\ \A i, j \in 1..Len(s) : f[i] = f[j] => i = j
            /\ \A i \in 1..Len(s) : t[i] = s[f[i]]}

----------------------------------------------------------------------------
(* The script *)

Archives ==
    LET listings == SeqsUpTo(Pool, MaxFiles)
    IN  {a \in [Datasets -> [pos : listings, neg : listings]] :
            Len(a["train"].pos) + Len(a["train"].neg)
              + Len(a["test"].pos) + Len(a["test"].neg) <= MaxFiles}

Init ==
    /\ fs \in Archives
    /\ max_tokens \in 0..MaxTokensBound
    /\ max_sentences \in -1..MaxSentencesBound
    /\ pc = "load"
    /\ error = "none"
    /\ train_data = <<>> /\ test_data = <<>>
    /\ num_sentences = 0 /\ embeddings = <<>> /\ labels = <<>> /\ documentIdx = 0
    /\ train_x = <<>> /\ train_y = <<>> /\ test_x = <<>> /\ test_y = <<>>
    /\ epoch = 0
    /\ elmo_calls = [ds \in Datasets |-> <<>>]

Documents(ds) == IF ds = "train" THEN train_data ELSE test_data

\* train_data, test_data = download_and_load_datasets()
DownloadAndLoad ==
    /\ pc = "load"
    /\ train_data' = load_dataset(fs["train"])
    /\ test_data' = load_dataset(fs["test"])
    /\ pc' = "shuffle_train"
    /\ UNCHANGED <<fs, max_tokens, max_sentences, error, num_sentences, embeddings,
                   labels, documentIdx, train_x, train_y, test_x, test_y, epoch, elmo_calls>>

\* random.shuffle(train_data)
ShuffleTrain ==
    /\ pc = "shuffle_train"
    /\ train_data' \in Permutations(train_data)
    /\ pc' = "shuffle_test"
    /\ UNCHANGED <<fs, max_tokens, max_sentences, error, test_data, num_sentences,
                   embeddings, labels, documentIdx, train_x, train_y, test_x, test_y,
                   epoch, elmo_calls>>

\* random.shuffle(test_data)
ShuffleTest ==
    /\ pc = "shuffle_test"
    /\ test_data' \in Permutations(test_data)
    /\ pc' = "tokenize_train"
    /\ UNCHANGED <<fs, max_tokens, max_sentences, error, train_data, num_sentences,
                   embeddings, labels, documentIdx, train_x, train_y, test_x, test_y,
                   epoch, elmo_calls>>

\* mutant of TokenizeTrain: the embedding lookup starts before the test data
\* is tokenized
TokenizeTrainThenEmbed ==
    /\ pc = "tokenize_train"
    /\ train_data' = tokenize_text(train_data, max_tokens)
    /\ pc' = "embed_train"
    /\ UNCHANGED <<fs, max_tokens, max_sentences, error, test_data, num_sentences,
                   embeddings, labels, documentIdx, train_x, train_y, test_x, test_y,
                   epoch, elmo_calls>>

\* tokenize_text(train_data, max_tokens)
TokenizeTrain ==
    /\ pc = "tokenize_train"
    /\ train_data' = tokenize_text(train_data, max_tokens)
    /\ pc' = "tokenize_test"
    /\ UNCHANGED <<fs, max_tokens, max_sentences, error, test_data, num_sentences,
                   embeddings, labels, documentIdx, train_x, train_y, test_x, test_y,
                   epoch, elmo_calls>>

\* tokenize_text(test_data, max_tokens)
TokenizeTest ==
    /\ pc = "tokenize_test"
    /\ test_data' = tokenize_text(test_data, max_tokens)
    /\ pc' = "embed_train"
    /\ UNCHANGED <<fs, max_tokens, max_sentences, error, train_data, num_sentences,
                   embeddings, labels, documentIdx, train_x, train_y, test_x, test_y,
                   epoch, elmo_calls>>

PcCall(ds) == IF ds = "train" THEN "embed_train" ELSE "embed_test"
PcLoop(ds) == IF ds = "train" THEN "embed_train_loop" ELSE "embed_test_loop"

\* create_elmo_embeddings(elmo, documents, max_sentences), up to the loop
EmbedCall(ds) ==
    /\ pc = PcCall(ds)
    /\ num_sentences' = NumSentences(max_sentences, Documents(ds))
    /\ embeddings' = <<>>
    /\ labels' = <<>>
    /\ documentIdx' = 0
    /\ pc' = PcLoop(ds)
    /\ UNCHANGED <<fs, max_tokens, max_sentences, error, train_data, test_data,
                   train_x, train_y, test_x, test_y, epoch, elmo_calls>>

\* return embeddings, labels; the caller binds them to train_x, train_y or
\* to test_x, test_y
EmbedReturn(ds, embs, labs) ==
    /\ IF ds = "train"
       THEN /\ train_x' = embs /\ train_y' = labs
            /\ pc' = "embed_test"
            /\ UNCHANGED <<test_x, test_y>>
       ELSE /\ test_x' = embs /\ test_y' = labs
            /\ pc' = "pad_train"
            /\ UNCHANGED <<train_x, train_y>>
    /\ error' = error

\* the embedder produces the embedding of document i of dataset ds
CountCall(ds, i) ==
    [elmo_calls EXCEPT ![ds] =
        IF i <= Len(@) THEN [@ EXCEPT ![i] = @ + 1] ELSE Append(@, 1)]

\* mutant of EmbedIter: the loop breaks one document late
EmbedIterLateBreak(ds) ==
    /\ pc = PcLoop(ds)
    /\ documentIdx < Len(Documents(ds))
    /\ LET document == Documents(ds)[documentIdx + 1]
       IN  /\ embeddings' = Append(embeddings, avg_elmo_embedding(document.tokens))
           /\ labels' = Append(labels, document.label)
    /\ elmo_calls' = CountCall(ds, documentIdx + 1)
    /\ documentIdx' = documentIdx + 1
    /\ IF max_sentences > 0 /\ documentIdx' > max_sentences
       THEN EmbedReturn(ds, embeddings', labels')
       ELSE /\ pc' = pc /\ error' = error
            /\ UNCHANGED <<train_x, train_y, test_x, test_y>>
    /\ UNCHANGED <<fs, max_tokens, max_sentences, train_data, test_data,
                   num_sentences, epoch>>

\* one iteration of "for elmo_embedding in elmo.embed_sentences(tokens)"
EmbedIter(ds) ==
    /\ pc = PcLoop(ds)
    /\ documentIdx < Len(Documents(ds))
    /\ LET document == Documents(ds)[documentIdx + 1]
       IN  /\ embeddings' = Append(embeddings, avg_elmo_embedding(document.tokens))
           /\ labels' = Append(labels, document.label)
    /\ elmo_calls' = CountCall(ds, documentIdx + 1)
    /\ documentIdx' = documentIdx + 1
    /\ IF num_sentences = 0
       THEN \* percent = 100.0 * documentIdx / num_sentences
            /\ pc' = "failed" /\ error' = pc
            /\ UNCHANGED <<train_x, train_y, test_x, test_y>>
       ELSE IF max_sentences > 0 /\ documentIdx' >= max_sentences
            THEN EmbedReturn(ds, embeddings', labels')
            ELSE /\ pc' = pc /\ error' = error
                 /\ UNCHANGED <<train_x, train_y, test_x, test_y>>
    /\ UNCHANGED <<fs, max_tokens, max_sentences, train_data, test_data,
                   num_sentences, epoch>>

\* the embedder has no sentence left: the loop ends
EmbedExhausted(ds) ==
    /\ pc = PcLoop(ds)
    /\ documentIdx >= Len(Documents(ds))
    /\ EmbedReturn(ds, embeddings, labels)
    /\ UNCHANGED <<fs, max_tokens, max_sentences, train_data, test_data,
                   num_sentences, embeddings, labels, documentIdx, epoch, elmo_calls>>

\* train_x = pad_x_matrix(train_x); train_y = np.array(train_y)
PadTrain ==
    /\ pc = "pad_train"
    /\ train_x' = pad_x_matrix(train_x, max_tokens)
    /\ IF np_array_ok(train_x')
       THEN pc' = "pad_test" /\ error' = error
       ELSE pc' = "failed" /\ error' = pc
    /\ UNCHANGED <<fs, max_tokens, max_sentences, train_data, test_data,
                   num_sentences, embeddings, labels, documentIdx,
                   train_y, test_x, test_y, epoch, elmo_calls>>

\* test_x = pad_x_matrix(test_x); test_y = np.array(test_y); print the shapes
PadTest ==
    /\ pc = "pad_test"
    /\ test_x' = pad_x_matrix(test_x, max_tokens)
    /\ IF np_array_ok(test_x')
       THEN pc' = "fit" /\ error' = error
       ELSE pc' = "failed" /\ error' = pc
    /\ UNCHANGED <<fs, max_tokens, max_sentences, train_data, test_data,
                   num_sentences, embeddings, labels, documentIdx,
                   train_x, train_y, test_y, epoch, elmo_calls>>

\* mutant of FitEpoch: the embeddings are looked up again in every epoch
FitEpochEmbeds ==
    /\ pc = "fit"
    /\ epoch < Epochs
    /\ epoch' = epoch + 1
    /\ elmo_calls' = [ds \in Datasets |->
                         [i \in 1..Len(elmo_calls[ds]) |-> elmo_calls[ds][i] + 1]]
    /\ UNCHANGED <<fs, max_tokens, max_sentences, pc, error, train_data, test_data,
                   num_sentences, embeddings, labels, documentIdx,
                   train_x, train_y, test_x, test_y>>

\* one epoch of model.fit(train_x, train_y, validation_data=(test_x, test_y),
\* epochs=10, batch_size=32): it reads the stored arrays
FitEpoch ==
    /\ pc = "fit"
    /\ epoch < Epochs
    /\ epoch' = epoch + 1
    /\ UNCHANGED <<fs, max_tokens, max_sentences, pc, error, train_data, test_data,
                   num_sentences, embeddings, labels, documentIdx,
                   train_x, train_y, test_x, test_y, elmo_calls>>

\* mutant of FitReturn: training stops one epoch early
FitReturnEarly ==
    /\ pc = "fit"
    /\ epoch >= Epochs - 1
    /\ pc' = "summary"
    /\ UNCHANGED <<fs, max_tokens, max_sentences, error, train_data, test_data,
                   num_sentences, embeddings, labels, documentIdx,
                   train_x, train_y, test_x, test_y, epoch, elmo_calls>>

\* model.fit returns after the last epoch
FitReturn ==
    /\ pc = "fit"
    /\ epoch >= Epochs
    /\ pc' = "summary"
    /\ UNCHANGED <<fs, max_tokens, max_sentences, error, train_data, test_data,
                   num_sentences, embeddings, labels, documentIdx,
                   train_x, train_y, test_x, test_y, epoch, elmo_calls>>

\* model.summary(), the last statement
Summary ==
    /\ pc = "summary"
    /\ pc' = "done"
    /\ UNCHANGED <<fs, max_tokens, max_sentences, error, train_data, test_data,
                   num_sentences, embeddings, labels, documentIdx,
                   train_x, train_y, test_x, test_y, epoch, elmo_calls>>

\* mutant of Raise: the exception is caught and the script carries on
RaiseSwallowed ==
    /\ pc \notin {"done", "failed"}
    /\ error = "none"
    /\ error' = pc
    /\ UNCHANGED <<fs, max_tokens, max_sentences, pc, train_data, test_data,
                   num_sentences, embeddings, labels, documentIdx,
                   train_x, train_y, test_x, test_y, epoch, elmo_calls>>

\* a library call of the running statement raises; the script has no
\* try/except, so the exception ends the run
Raise ==
    /\ pc \notin {"done", "failed"}
    /\ error' = pc
    /\ pc' = "failed"
    /\ UNCHANGED <<fs, max_tokens, max_sentences, train_data, test_data,
                   num_sentences, embeddings, labels, documentIdx,
                   train_x, train_y, test_x, test_y, epoch, elmo_calls>>

Step ==
    \/ DownloadAndLoad
    \/ ShuffleTrain
    \/ ShuffleTest
    \/ TokenizeTrain
    \/ TokenizeTest
    \/ \E ds \in Datasets : EmbedCall(ds)
    \/ \E ds \in Datasets : EmbedIter(ds)
    \/ \E ds \in Datasets : EmbedExhausted(ds)
    \/ PadTrain
    \/ PadTest
    \/ FitEpoch
    \/ FitReturn
    \/ Summary

Next == Step \/ Raise

Spec == Init /\ [][Next]_vars

\* the interpreter runs the next statement whenever there is one
FairSpec == Spec /\ WF_vars(Step)

----------------------------------------------------------------------------
(* Properties *)

X(ds) == IF ds = "train" THEN train_x ELSE test_x
Y(ds) == IF ds = "train" THEN train_y ELSE test_y

\* the statement that ran last, also when it is the one that raised
At == IF pc = "failed" THEN error ELSE pc

\* create_elmo_embeddings has returned for ds
Embedded(ds) ==
    IF ds = "train"
    THEN At \in {"embed_test", "embed_test_loop", "pad_train", "pad_test", "fit", "summary", "done"}
    ELSE At \in {"pad_train", "pad_test", "fit", "summary", "done"}

\* pad_x_matrix has returned for ds
Padded(ds) ==
    IF ds = "train" THEN At \in {"pad_test", "fit", "summary", "done"}
    ELSE At \in {"fit", "summary", "done"}

FullTokens(document) == text_to_word_sequence(document.text)

\* C1 as stated: for every set of documents, after tokenize_text,
\* create_elmo_embeddings and pad_x_matrix with the same max_tokens the matrix
\* has the shape (number of embedded documents, max_tokens, embedding dimension).
C1_UniformShape ==
    \A ds \in Datasets :
        Padded(ds) => np_shape(X(ds)) = <<Len(Y(ds)), max_tokens, EmbDim>>

\* C1 amended: every entry of the padded matrix has exactly max_tokens rows
\* and there is one entry per embedded document; with at least one embedded
\* document the shape is (documents, max_tokens, dimension), with none the
\* matrix is the empty array of shape (0,).
C1_PaddedRows ==
    \A ds \in Datasets :
        Padded(ds) =>
            /\ Len(X(ds)) = Len(Y(ds))
            /\ \A i \in 1..Len(X(ds)) : Len(X(ds)[i]) = max_tokens
            /\ Len(Y(ds)) > 0 => np_shape(X(ds)) = <<Len(Y(ds)), max_tokens, EmbDim>>
            /\ Len(Y(ds)) = 0 => np_shape(X(ds)) = <<0>>

\* a padded train matrix built from a document without tokens and a document
\* with more than max_tokens tokens
C1_Witness ==
    /\ Padded("train")
    /\ max_tokens > 0
    /\ Len(train_x) = 2
    /\ \E i \in 1..Len(train_data) : FullTokens(train_data[i]) = <<>>
    /\ \E i \in 1..Len(train_data) : Len(FullTokens(train_data[i])) > max_tokens

TokenizedFrom(before, after) ==
    /\ Len(after) = Len(before)
    /\ \A i \in 1..Len(before) :
        LET full == FullTokens(before[i])
            k == Min(max_tokens, Len(full))
        IN  /\ Len(after[i].tokens) = k
            /\ \A j \in 1..k : after[i].tokens[j] = full[j]
            /\ Len(after[i].tokens) <= max_tokens
            /\ after[i].text = before[i].text
            /\ after[i].label = before[i].label

HoldsAtMost(documents) ==
    \A i \in 1..Len(documents) :
        "tokens" \in DOMAIN documents[i] => Len(documents[i].tokens) <= max_tokens

\* C2: tokenize_text leaves every document with the first min(max_tokens, n)
\* tokens of its full tokenization, in order; afterwards no document holds
\* more than max_tokens tokens; 'text' and 'label' are unchanged.
C2_TokenizeTruncates ==
    [][/\ (pc = "tokenize_train" /\ pc' = "tokenize_test")
              => TokenizedFrom(train_data, train_data')
       /\ (pc = "tokenize_test" /\ pc' = "embed_train")
              => TokenizedFrom(test_data, test_data')
       /\ HoldsAtMost(train_data') /\ HoldsAtMost(test_data')]_vars

\* train_data is tokenized and one of its documents was cut, another was not
C2_Witness ==
    /\ pc = "tokenize_test"
    /\ max_tokens > 0
    /\ \E i \in 1..Len(train_data) :
           /\ Len(FullTokens(train_data[i])) > max_tokens
           /\ Len(train_data[i].tokens) = max_tokens
    /\ \E i \in 1..Len(train_data) :
           /\ Len(FullTokens(train_data[i])) < max_tokens
           /\ train_data[i].tokens = FullTokens(train_data[i])

OpOrder ==
    <<"load", "shuffle_train", "shuffle_test", "tokenize_train", "tokenize_test",
      "embed_train", "embed_train_loop", "embed_test", "embed_test_loop",
      "pad_train", "pad_test", "fit", "summary", "done">>

OpNo(p) == CHOOSE i \in 1..Len(OpOrder) : OpOrder[i] = p

\* 1 acquisition, 2 tokenization, 3 embedding lookup, 4 padding, 5 training
StageOf(p) ==
    IF p \in {"load", "shuffle_train", "shuffle_test"} THEN 1
    ELSE IF p \in {"tokenize_train", "tokenize_test"} THEN 2
    ELSE IF p \in {"embed_train", "embed_train_loop", "embed_test", "embed_test_loop"} THEN 3
    ELSE IF p \in {"pad_train", "pad_test"} THEN 4
    ELSE IF p \in {"fit", "summary"} THEN 5
    ELSE 6

AllTokenized(documents) ==
    \A i \in 1..Len(documents) : "tokens" \in DOMAIN documents[i]

\* C3: the stages run strictly in the order acquisition, tokenization,
\* embedding lookup, padding, training; a stage starts only after the previous
\* one has completed for the train and the test data; no statement runs a
\* second time.
C3_StagesInOrder ==
    [][pc' # "failed" =>
        /\ pc # "failed"
        /\ OpNo(pc') \in {OpNo(pc), OpNo(pc) + 1}
        /\ OpNo(pc') = OpNo(pc) =>
              \/ pc \in {"embed_train_loop", "embed_test_loop"} /\ documentIdx' = documentIdx + 1
              \/ pc = "fit" /\ epoch' = epoch + 1
        /\ (StageOf(pc) = 1 /\ StageOf(pc') = 2) =>
              /\ Len(train_data') = Len(fs["train"].pos) + Len(fs["train"].neg)
              /\ Len(test_data') = Len(fs["test"].pos) + Len(fs["test"].neg)
        /\ (StageOf(pc) = 2 /\ StageOf(pc') = 3) =>
              AllTokenized(train_data') /\ AllTokenized(test_data')
        /\ (StageOf(pc) = 3 /\ StageOf(pc') = 4) =>
              /\ Len(train_x') = Len(train_y') /\ Len(test_x') = Len(test_y')
              /\ elmo_calls'["train"] = [i \in 1..Len(train_x') |-> 1]
              /\ elmo_calls'["test"] = [i \in 1..Len(test_x') |-> 1]
        /\ (StageOf(pc) = 4 /\ StageOf(pc') = 5) =>
              /\ \A i \in 1..Len(train_x') : Len(train_x'[i]) = max_tokens
              /\ \A i \in 1..Len(test_x') : Len(test_x'[i]) = max_tokens]_vars

\* a complete run over a train and a test document
C3_Witness ==
    /\ pc = "done"
    /\ Len(train_x) > 0 /\ Len(test_x) > 0

\* C4: the embedder is asked for each document's embedding at most once,
\* every embedder invocation happens before the first epoch starts, and the
\* epochs leave the stored arrays and the embedder alone.
C4_EmbeddedOnce ==
    [][/\ \A ds \in Datasets : \A i \in 1..Len(elmo_calls'[ds]) : elmo_calls'[ds][i] <= 1
       /\ elmo_calls' # elmo_calls => (epoch' = 0 /\ StageOf(pc) = 3)
       /\ epoch' # epoch =>
             /\ elmo_calls' = elmo_calls
             /\ train_x' = train_x /\ test_x' = test_x
             /\ train_y' = train_y /\ test_y' = test_y]_vars

\* all epochs have run over embeddings that were looked up before
C4_Witness ==
    /\ pc = "done" /\ epoch = Epochs
    /\ elmo_calls["train"] = <<1, 1>>
    /\ Len(train_x) = 2

\* C5: a failure of any stage propagates unhandled: the run ends failed at the
\* statement that raised, no later statement runs and nothing is retried.
C5_FailureEndsRun ==
    [][/\ pc # "failed"
       /\ error = "none"
       /\ error' # "none" => (pc' = "failed" /\ error' = pc)
       /\ pc' = "failed" => error' = pc]_vars

\* the embedding call failed after it had produced an embedding
C5_Witness ==
    /\ pc = "failed" /\ error = "embed_train_loop"
    /\ documentIdx > 0

\* C6: when no stage fails the run terminates; training runs exactly Epochs
\* epochs, counted one by one, and the script then stops.
C6_Terminates ==
    /\ <>(pc = "done" \/ error # "none")
    /\ [](pc \in {"summary", "done"} => epoch = Epochs)
    /\ [][/\ epoch' # epoch => (pc = "fit" /\ epoch' = epoch + 1 /\ epoch' <= Epochs)
          /\ pc = "done" => pc' = "done"]_vars

\* a run without failure that ended after the last epoch
C6_Witness ==
    /\ pc = "done" /\ error = "none" /\ epoch = Epochs
    /\ Len(train_data) > 0

\* C7: create_elmo_embeddings returns exactly num_sentences embeddings and
\* num_sentences labels, num_sentences being min(max_sentences, len(documents))
\* for max_sentences > 0 and len(documents) otherwise.
C7_ReturnsNumSentences ==
    /\ \A ds \in Datasets :
          Embedded(ds) =>
              LET n == IF max_sentences > 0
                       THEN (IF max_sentences < Len(Documents(ds))
                             THEN max_sentences ELSE Len(Documents(ds)))
                       ELSE Len(Documents(ds))
              IN  Len(X(ds)) = n /\ Len(Y(ds)) = n
    /\ pc = "embed_test" => num_sentences = Len(train_x)
    /\ pc = "pad_train" => num_sentences = Len(test_x)

\* the call returned fewer documents than it was given
C7_Witness ==
    /\ pc = "embed_test"
    /\ max_sentences > 0
    /\ Len(train_data) > max_sentences
    /\ Len(train_x) = max_sentences

Count(documents, t, l) ==
    Cardinality({i \in 1..Len(documents) : documents[i].text = t /\ documents[i].label = l})

Files(listing, t) ==
    Cardinality({j \in 1..Len(listing) : str_replace(listing[j], BR, <<" ">>) = t})

\* C8: load_dataset returns one record per file of 'pos' and 'neg', the
\* records of 'pos' with label 1 and those of 'neg' with label 0, and
\* random.shuffle only permutes the records.
C8_OneRecordPerFile ==
    At # "load" =>
        \A ds \in Datasets :
            /\ Len(Documents(ds)) = Len(fs[ds].pos) + Len(fs[ds].neg)
            /\ \A i \in 1..Len(Documents(ds)) : Documents(ds)[i].label \in {0, 1}
            /\ \A f \in Pool :
                  LET t == str_replace(f, BR, <<" ">>)
                  IN  /\ Count(Documents(ds), t, 1) = Files(fs[ds].pos, t)
                      /\ Count(Documents(ds), t, 0) = Files(fs[ds].neg, t)

\* the shuffle moved a negative example in front of a positive one
C8_Witness ==
    /\ pc = "shuffle_test"
    /\ Len(train_data) = 2
    /\ train_data[1].label = 0 /\ train_data[2].label = 1
    /\ train_data[1].text # train_data[2].text

====
